---- MODULE Spec2Model ----
(***************************************************************************)
(* State-machine model of the eosio.token contract with issuance           *)
(* throttling (contracts/eosio.token/src/eosio.token.cpp).                 *)
(*                                                                         *)
(* The contract's tables are the state: the stats table (one row per       *)
(* symbol code) and the accounts tables (one row per owner and symbol      *)
(* code, each row with the account that pays for its storage).  Every      *)
(* contract action is one operator that runs its checks in the order of    *)
(* the code on a working copy of the tables and returns either the new     *)
(* tables or the first failed check; Commit is the host's transaction      *)
(* boundary, which keeps the working copy only when no check failed.       *)
(***************************************************************************)
EXTENDS Integers, FiniteSets, Sequences, TLC

(***************************************************************************)
(* Bounds of the model.                                                    *)
(***************************************************************************)
\* Stand-in for asset::max_amount (2^62 - 1), the largest amount an asset may
\* hold: asset's constructor and its +, += and -= fail beyond it.  The value
\* keeps amount * 1000000 within the model checker's integers.
max_amount == 2000
\* The block clock advances in steps of TickSecs, NumTicks times at most.
NumTicks == 1

(***************************************************************************)
(* Names, symbols and assets.                                              *)
(***************************************************************************)
Self     == "eosio.token"               \* get_self()
NoName   == "none"                      \* ""_n, the empty name
Accounts == {"alice", "bob"}            \* names for which is_account holds
Ghost    == "ghost"                     \* a name that is no account
Names    == Accounts \cup {Ghost}

is_account(n) == n \in Accounts

\* The sets of accounts whose authority a transaction may carry.
AuthSets == {{Self}, {"alice"}, {"bob"}, {"alice", "bob"}}

has_auth(auth, n) == n \in auth

SymCodes == {"TKN"}

TKN4 == [code |-> "TKN", precision |-> 4]

\* the same symbol code with another precision
TKN2 == [code |-> "TKN", precision |-> 2]

\* not a valid symbol name
BadSym == [code |-> "tkn", precision |-> 4]

symbol_is_valid(sym) == sym.code \in SymCodes

Asset(a, sym) == [amount |-> a, symbol |-> sym]

is_amount_within_range(a) == -max_amount <= a /\ a <= max_amount

asset_is_valid(q) == is_amount_within_range(q.amount) /\ symbol_is_valid(q.symbol)

\* Amounts are offered in units of half the largest amount.
Unit == max_amount \div 2

\* memo.size() of a short and of an over-long memo
MemoSizes == {0, 257}

NoRow == [row |-> "none"]

milli == 1000000

day == 60 * 60 * 24

year == day * 365

TickSecs == day \div 2

\* Stand-in for 10000000000000000000, the ppm limit create stores: larger
\* than every ppm value the model computes (at most max_amount * milli).
unlimited_ppm == max_amount * milli + 1

\* stats and accounts are the contract's tables and now is the block time;
\* last records the outcome of the last step and issued, for each symbol code,
\* the amounts issued so far by the time of their issue (neither is read by
\* the contract).
VARIABLES stats, accounts, now, last, issued

vars == <<stats, accounts, now, last, issued>>

(***************************************************************************)
(* Results of running an action on a working copy of the tables.           *)
(***************************************************************************)
Fail(msg, S, A) == [ok |-> FALSE, err |-> msg, stats |-> S, accounts |-> A, sent |-> NoName]

Done(S, A, to) == [ok |-> TRUE, err |-> "", stats |-> S, accounts |-> A, sent |-> to]

\* statstable.find( code ): the row, or NoRow at end()
find_stat(S, code) == IF code \in DOMAIN S THEN S[code] ELSE NoRow

\* acnts.find( code ) in the accounts table scoped by owner
find_acnt(A, owner, code) == IF owner \in DOMAIN A /\ code \in DOMAIN A[owner] THEN A[owner][code] ELSE NoRow

(***************************************************************************)
(* token::create                                                           *)
(***************************************************************************)
create(S, A, t, auth, issuer, maximum_supply) ==
    LET sym == maximum_supply.symbol IN
    IF ~has_auth(auth, Self) THEN Fail("missing authority", S, A)
    ELSE IF ~symbol_is_valid(sym) THEN Fail("invalid symbol name", S, A)
    ELSE IF ~asset_is_valid(maximum_supply) THEN Fail("invalid supply", S, A)
    ELSE IF ~(maximum_supply.amount > 0) THEN Fail("max-supply must be positive", S, A)
    ELSE IF find_stat(S, sym.code) # NoRow THEN Fail("token with symbol already exists", S, A)
    ELSE Done([S EXCEPT ![sym.code] =
                 [avg_daily_inflation     |-> Asset(0, sym),
                  avg_yearly_inflation    |-> Asset(0, sym),
                  supply                  |-> Asset(0, sym),
                  max_supply              |-> maximum_supply,
                  issuer                  |-> issuer,
                  recall                  |-> TRUE,
                  authorize               |-> TRUE,
                  authorizer              |-> NoName,
                  last_update             |-> t,
                  daily_inf_per_limit     |-> unlimited_ppm,
                  yearly_inf_per_limit    |-> unlimited_ppm,
                  allowed_daily_inflation |-> maximum_supply]],
              A, NoName)

(***************************************************************************)
(* token::calculate_avg                                                    *)
(***************************************************************************)
\* The result of an asset operation: value is meaningful when ok.
AssetOk(a) == [ok |-> TRUE, err |-> "", value |-> a]

AssetErr(msg) == [ok |-> FALSE, err |-> msg, value |-> Asset(0, BadSym)]

\* asset( amount, sym ): the constructor's two checks
asset_ctor(a, sym) ==
    IF ~is_amount_within_range(a) THEN AssetErr("magnitude of asset amount must be less than 2^62")
    ELSE IF ~symbol_is_valid(sym) THEN AssetErr("invalid symbol name")
    ELSE AssetOk(Asset(a, sym))

\* asset operator+ (also += and, with b negated, -=)
asset_add(a, b) ==
    IF a.symbol # b.symbol THEN AssetErr("attempt to add asset with different symbol")
    ELSE IF a.amount + b.amount < -max_amount THEN AssetErr("addition underflow")
    ELSE IF a.amount + b.amount > max_amount THEN AssetErr("addition overflow")
    ELSE AssetOk(Asset(a.amount + b.amount, a.symbol))

asset_sub(a, b) ==
    IF a.symbol # b.symbol THEN AssetErr("attempt to subtract asset with different symbol")
    ELSE IF a.amount - b.amount < -max_amount THEN AssetErr("subtraction underflow")
    ELSE IF a.amount - b.amount > max_amount THEN AssetErr("subtraction overflow")
    ELSE AssetOk(Asset(a.amount - b.amount, a.symbol))

RECURSIVE gcd(_, _)
gcd(a, b) == IF b = 0 THEN a ELSE gcd(b, a % b)

\* delta * milli / window_span_secs in uint64_t.  delta is a difference of two
\* 32-bit second counts, so the product stays below 2^64 and the quotient is
\* the exact floor; the common factor of milli and the window is cancelled
\* first, which leaves the quotient unchanged and keeps the product small.
window_travelled_raw(delta, window_span_secs) ==
    LET g == gcd(milli, window_span_secs)
    IN  (delta * (milli \div g)) \div (window_span_secs \div g)

window_travelled_unclamped(delta, window_span_secs) == window_travelled_raw(delta, window_span_secs)

window_travelled_ppm(delta, window_span_secs) ==
    LET raw == window_travelled_raw(delta, window_span_secs)
    IN  IF raw > milli THEN milli ELSE raw

\* The part of the window that has passed, kept in place of the part that
\* remains.
reverse_travelled_forgotten(delta, window_span_secs) == window_travelled_ppm(delta, window_span_secs)

reverse_travelled_ppm(delta, window_span_secs) == milli - window_travelled_ppm(delta, window_span_secs)

\* int64_t(current_avg.amount * int128_t(reverse_travelled_ppm) / milli):
\* C++ division truncates toward zero
decayed_amount(delta, window_span_secs, amount) ==
    LET p == amount * reverse_travelled_ppm(delta, window_span_secs)
    IN  IF p >= 0 THEN p \div milli ELSE -((-p) \div milli)

\* The decay applied to the sum of the average and the new issuance, as if the
\* addition stood inside the parentheses.
calculate_avg_decays_sum(delta, window_span_secs, current_avg, new_issuance) ==
    LET sum == asset_add(current_avg, new_issuance)
    IN  IF ~sum.ok THEN sum
        ELSE asset_ctor(decayed_amount(delta, window_span_secs, sum.value.amount), new_issuance.symbol)

calculate_avg(delta, window_span_secs, current_avg, new_issuance) ==
    LET d == asset_ctor(decayed_amount(delta, window_span_secs, current_avg.amount), new_issuance.symbol)
    IN  IF ~d.ok THEN d ELSE asset_add(d.value, new_issuance)

(***************************************************************************)
(* token::sub_balance and token::add_balance                               *)
(***************************************************************************)
BalErr(msg, A) == [ok |-> FALSE, err |-> msg, accounts |-> A]

BalOk(A) == [ok |-> TRUE, err |-> "", accounts |-> A]

\* check( from.balance.amount >= value.amount, "overdrawn balance" ) fails
overdrawn_never(balance, value) == FALSE

overdrawn(balance, value) == ~(balance.amount >= value.amount)

\* a.balance -= value
debit_nothing(balance, value) == AssetOk(balance)

debit(balance, value) == asset_sub(balance, value)

\* a.balance += value
credit_overwrites(balance, value) == AssetOk(value)

credit(balance, value) == asset_add(balance, value)

\* A debit that leaves the balance alone when it cannot be paid, in place of
\* the two checks.
sub_balance_skips(A, owner, value) ==
    LET from == find_acnt(A, owner, value.symbol.code) IN
    IF from = NoRow \/ overdrawn(from.balance, value) THEN BalOk(A)
    ELSE BalOk([A EXCEPT ![owner][value.symbol.code] = [balance |-> debit(from.balance, value).value, payer |-> owner]])

\* from_acnts.modify( from, owner, ... ) charges the row to owner from now on
sub_balance(A, owner, value) ==
    LET from == find_acnt(A, owner, value.symbol.code) IN
    IF from = NoRow THEN BalErr("no balance object found", A)
    ELSE IF overdrawn(from.balance, value) THEN BalErr("overdrawn balance", A)
    ELSE LET b == debit(from.balance, value) IN
         IF ~b.ok THEN BalErr(b.err, A)
         ELSE BalOk([A EXCEPT ![owner][value.symbol.code] = [balance |-> b.value, payer |-> owner]])

\* A credit that charges the row to ram_payer from now on, as if modify were
\* given ram_payer in place of same_payer.
add_balance_repays(A, owner, value, ram_payer) ==
    LET to == find_acnt(A, owner, value.symbol.code) IN
    IF to = NoRow
    THEN BalOk([A EXCEPT ![owner][value.symbol.code] = [balance |-> value, payer |-> ram_payer]])
    ELSE LET b == credit(to.balance, value) IN
         IF ~b.ok THEN BalErr(b.err, A)
         ELSE BalOk([A EXCEPT ![owner][value.symbol.code] = [balance |-> b.value, payer |-> ram_payer]])

\* to_acnts.modify( to, same_payer, ... ) keeps the row's payer
add_balance(A, owner, value, ram_payer) ==
    LET to == find_acnt(A, owner, value.symbol.code) IN
    IF to = NoRow
    THEN BalOk([A EXCEPT ![owner][value.symbol.code] = [balance |-> value, payer |-> ram_payer]])
    ELSE LET b == credit(to.balance, value) IN
         IF ~b.ok THEN BalErr(b.err, A)
         ELSE BalOk([A EXCEPT ![owner][value.symbol.code] = [balance |-> b.value, payer |-> to.payer]])

(***************************************************************************)
(* token::issue                                                            *)
(***************************************************************************)
\* What the two divisions by old_supply.amount may do when it is 0: the
\* division is undefined, so it may trap or leave any quotient.
DivZeroOutcomes == {[trap |-> TRUE, q |-> 0], [trap |-> FALSE, q |-> 0], [trap |-> FALSE, q |-> unlimited_ppm]}

\* (avg.amount * int128_t(milli)) / old_supply.amount, stored in a uint64_t.
\* With amounts up to max_amount the quotient is below unlimited_ppm, which
\* stands for 10^19 < 2^64, so the narrowing to 64 bits loses nothing here;
\* with amounts near 2^62 and a supply below 250000 it would.
ppm_inf(avg, old_supply, ub) == IF old_supply.amount = 0 THEN ub.q ELSE (avg.amount * milli) \div old_supply.amount

\* The check of lines 75-81, "" when it passes
inflation_gate(st, new_day_avg, new_year_avg, ub) ==
    IF new_day_avg.amount > st.allowed_daily_inflation.amount
    THEN IF st.supply.amount = 0 /\ ub.trap THEN "divide by zero"
         ELSE IF ~(ppm_inf(new_day_avg, st.supply, ub) < st.daily_inf_per_limit) THEN "daily inflation reached"
         ELSE IF ~(ppm_inf(new_year_avg, st.supply, ub) < st.yearly_inf_per_limit) THEN "yearly inflation reached"
         ELSE ""
    ELSE ""

\* check( quantity.amount <= st.max_supply.amount - st.supply.amount, ... ) fails
exceeds_max_supply_only(st, quantity) == ~(quantity.amount <= st.max_supply.amount)

exceeds_available_supply(st, quantity) == ~(quantity.amount <= st.max_supply.amount - st.supply.amount)

issue(S, A, t, auth, to, quantity, memo, ub) ==
    LET sym == quantity.symbol
        st  == find_stat(S, sym.code)
    IN
    IF ~symbol_is_valid(sym) THEN Fail("invalid symbol name", S, A)
    ELSE IF ~(memo <= 256) THEN Fail("memo has more than 256 bytes", S, A)
    ELSE IF st = NoRow THEN Fail("token with symbol does not exist, create token before issue", S, A)
    ELSE IF to # st.issuer THEN Fail("tokens can only be issued to issuer account", S, A)
    ELSE IF ~has_auth(auth, st.issuer) THEN Fail("missing authority", S, A)
    ELSE IF ~asset_is_valid(quantity) THEN Fail("invalid quantity", S, A)
    ELSE IF ~(quantity.amount > 0) THEN Fail("must issue positive quantity", S, A)
    ELSE IF quantity.symbol # st.supply.symbol THEN Fail("symbol precision mismatch", S, A)
    ELSE IF exceeds_available_supply(st, quantity) THEN Fail("quantity exceeds available supply", S, A)
    ELSE
    LET delta        == t - st.last_update
        new_day_avg  == calculate_avg(delta, day, st.avg_daily_inflation, quantity)
        new_year_avg == calculate_avg(delta, year, st.avg_yearly_inflation, quantity)
        new_supply   == asset_add(st.supply, quantity)
    IN
    IF ~new_day_avg.ok THEN Fail(new_day_avg.err, S, A)
    ELSE IF ~new_year_avg.ok THEN Fail(new_year_avg.err, S, A)
    ELSE IF ~new_supply.ok THEN Fail(new_supply.err, S, A)
    ELSE
    LET gate == inflation_gate(st, new_day_avg.value, new_year_avg.value, ub)
        S1   == [S EXCEPT ![sym.code] = [st EXCEPT !.supply = new_supply.value,
                                                   !.last_update = t,
                                                   !.avg_daily_inflation = new_day_avg.value,
                                                   !.avg_yearly_inflation = new_year_avg.value]]
        b    == add_balance(A, st.issuer, quantity, st.issuer)
    IN
    IF gate # "" THEN Fail(gate, S, A)
    ELSE IF ~b.ok THEN Fail(b.err, S1, A)
    ELSE Done(S1, b.accounts, NoName)

(***************************************************************************)
(* token::update                                                           *)
(***************************************************************************)
\* if (flag) check( st.flag, "cannot enable recall once disabled" ) fails
enables_unchecked(flag, stored) == FALSE

enables(flag, stored) == flag /\ ~stored

\* the checks on authorizer of lines 113-120, "" when they pass
authorizer_unchecked(authorize, authorizer) == ""

authorizer_check(authorize, authorizer) ==
    IF authorize
    THEN IF authorizer # NoName /\ ~is_account(authorizer) THEN "authorizer account does not exist" ELSE ""
    ELSE IF authorizer # NoName THEN "authorizer must be empty" ELSE ""

\* check( limit <= st.limit, "cannot raise ..." ) fails
raises_unchecked(limit, stored) == FALSE

raises(limit, stored) == ~(limit <= stored)

update(S, A, auth, sym, recall, authorize, authorizer, daily_inf_per_limit, yearly_inf_per_limit, allowed_daily_inflation) ==
    LET st == find_stat(S, sym.code) IN
    IF st = NoRow THEN Fail("token with symbol does not exist, create token before issue", S, A)
    ELSE IF ~has_auth(auth, st.issuer) THEN Fail("missing authority", S, A)
    ELSE IF enables(recall, st.recall) THEN Fail("cannot enable recall once disabled", S, A)
    ELSE IF enables(authorize, st.authorize) THEN Fail("cannot enable recall once disabled", S, A)
    ELSE IF authorizer_check(authorize, authorizer) # "" THEN Fail(authorizer_check(authorize, authorizer), S, A)
    ELSE IF raises(daily_inf_per_limit, st.daily_inf_per_limit) THEN Fail("cannot raise daily inflation percent limit", S, A)
    ELSE IF raises(yearly_inf_per_limit, st.yearly_inf_per_limit) THEN Fail("cannot raise yearly inflation percent limit", S, A)
    ELSE IF raises(allowed_daily_inflation.amount, st.allowed_daily_inflation.amount) THEN Fail("cannot raise absolute daily inflation limit", S, A)
    ELSE Done([S EXCEPT ![sym.code] = [st EXCEPT !.recall = recall,
                                                 !.authorize = authorize,
                                                 !.authorizer = authorizer,
                                                 !.daily_inf_per_limit = daily_inf_per_limit,
                                                 !.yearly_inf_per_limit = yearly_inf_per_limit,
                                                 !.allowed_daily_inflation = allowed_daily_inflation]],
              A, NoName)

(***************************************************************************)
(* token::retire                                                           *)
(***************************************************************************)
retire(S, A, auth, quantity, memo) ==
    LET sym == quantity.symbol
        st  == find_stat(S, sym.code)
    IN
    IF ~symbol_is_valid(sym) THEN Fail("invalid symbol name", S, A)
    ELSE IF ~(memo <= 256) THEN Fail("memo has more than 256 bytes", S, A)
    ELSE IF st = NoRow THEN Fail("token with symbol does not exist", S, A)
    ELSE IF ~has_auth(auth, st.issuer) THEN Fail("missing authority", S, A)
    ELSE IF ~asset_is_valid(quantity) THEN Fail("invalid quantity", S, A)
    ELSE IF ~(quantity.amount > 0) THEN Fail("must retire positive quantity", S, A)
    ELSE IF quantity.symbol # st.supply.symbol THEN Fail("symbol precision mismatch", S, A)
    ELSE
    LET new_supply == asset_sub(st.supply, quantity) IN
    IF ~new_supply.ok THEN Fail(new_supply.err, S, A)
    ELSE
    LET S1 == [S EXCEPT ![sym.code] = [st EXCEPT !.supply = new_supply.value]]
        b  == sub_balance(A, st.issuer, quantity)
    IN
    IF ~b.ok THEN Fail(b.err, S1, A)
    ELSE Done(S1, b.accounts, NoName)

(***************************************************************************)
(* token::transfer                                                         *)
(***************************************************************************)
\* check( from != to, "cannot transfer to self" ) fails
to_self_never(from, to) == FALSE

to_self(from, to) == ~(from # to)

transfer(S, A, auth, from, to, quantity, memo) ==
    LET st == find_stat(S, quantity.symbol.code) IN
    IF to_self(from, to) THEN Fail("cannot transfer to self", S, A)
    ELSE IF ~has_auth(auth, from) THEN Fail("missing authority", S, A)
    ELSE IF ~is_account(to) THEN Fail("to account does not exist", S, A)
    ELSE IF st = NoRow THEN Fail("unable to find key", S, A)
    ELSE IF ~asset_is_valid(quantity) THEN Fail("invalid quantity", S, A)
    ELSE IF ~(quantity.amount > 0) THEN Fail("must transfer positive quantity", S, A)
    ELSE IF quantity.symbol # st.supply.symbol THEN Fail("symbol precision mismatch", S, A)
    ELSE IF ~(memo <= 256) THEN Fail("memo has more than 256 bytes", S, A)
    ELSE
    LET sent  == IF st.authorize /\ st.authorizer # NoName THEN st.authorizer ELSE NoName
        payer == IF has_auth(auth, to) THEN to ELSE from
        d     == sub_balance(A, from, quantity)
    IN
    IF ~d.ok THEN Fail(d.err, S, A)
    ELSE
    LET c == add_balance(d.accounts, to, quantity, payer) IN
    IF ~c.ok THEN Fail(c.err, S, d.accounts)
    ELSE Done(S, c.accounts, sent)

(***************************************************************************)
(* token::open and token::close                                            *)
(***************************************************************************)
\* An open that emplaces its zero-balance row whether or not one is there.
open_overwrites(S, A, auth, owner, symbol, ram_payer) ==
    LET st == find_stat(S, symbol.code) IN
    IF ~has_auth(auth, ram_payer) THEN Fail("missing authority", S, A)
    ELSE IF ~is_account(owner) THEN Fail("owner account does not exist", S, A)
    ELSE IF st = NoRow THEN Fail("symbol does not exist", S, A)
    ELSE IF st.supply.symbol # symbol THEN Fail("symbol precision mismatch", S, A)
    ELSE Done(S, [A EXCEPT ![owner][symbol.code] = [balance |-> Asset(0, symbol), payer |-> ram_payer]], NoName)

open(S, A, auth, owner, symbol, ram_payer) ==
    LET st == find_stat(S, symbol.code) IN
    IF ~has_auth(auth, ram_payer) THEN Fail("missing authority", S, A)
    ELSE IF ~is_account(owner) THEN Fail("owner account does not exist", S, A)
    ELSE IF st = NoRow THEN Fail("symbol does not exist", S, A)
    ELSE IF st.supply.symbol # symbol THEN Fail("symbol precision mismatch", S, A)
    ELSE IF find_acnt(A, owner, symbol.code) = NoRow
    THEN Done(S, [A EXCEPT ![owner][symbol.code] = [balance |-> Asset(0, symbol), payer |-> ram_payer]], NoName)
    ELSE Done(S, A, NoName)

\* check( it->balance.amount == 0, ... ) passes
closable_always(it) == TRUE

closable(it) == it.balance.amount = 0

close(S, A, auth, owner, symbol) ==
    LET it == find_acnt(A, owner, symbol.code) IN
    IF ~has_auth(auth, owner) THEN Fail("missing authority", S, A)
    ELSE IF it = NoRow THEN Fail("Balance row already deleted or never existed. Action won't have any effect.", S, A)
    ELSE IF ~closable(it) THEN Fail("Cannot close because the balance is not zero.", S, A)
    ELSE Done(S, [A EXCEPT ![owner][symbol.code] = NoRow], NoName)

(***************************************************************************)
(* The transaction boundary, the inputs and the actions.                   *)
(***************************************************************************)
\* A failed check aborts the transaction: the tables stay as they were.
Commit(r, S, A) == IF r.ok THEN [stats |-> r.stats, accounts |-> r.accounts] ELSE [stats |-> S, accounts |-> A]

Outcome(name, r) == [op |-> name, ok |-> r.ok, err |-> r.err, sent |-> r.sent]

Apply(name, result) ==
    \E r \in {result} :
        /\ stats' = Commit(r, stats, accounts).stats
        /\ accounts' = Commit(r, stats, accounts).accounts
        /\ last' = Outcome(name, r)
        /\ now' = now
        /\ issued' = issued

SupplyIsZero(S, code) == find_stat(S, code) # NoRow /\ S[code].supply.amount = 0

\* The inputs offered to the actions.  A set of calls is a set of records, one
\* field per parameter; each specification names the calls it offers.
GoodQuantities == {Asset(Unit, TKN4), Asset(2 * Unit, TKN4)}

\* zero, out of range, another precision, an invalid symbol
OddQuantities == {Asset(0, TKN4), Asset(max_amount + 1, TKN4), Asset(Unit, TKN2), Asset(Unit, BadSym)}

Quantities == GoodQuantities \cup OddQuantities

Symbols == {TKN4, TKN2, BadSym}

PpmLimits == {0, milli, 2 * milli, unlimited_ppm}

AllowedInflations == {Asset(0, TKN4), Asset(Unit, TKN4), Asset(2 * Unit, TKN4)}

CreateCalls(as, is, ms) == [auth : as, issuer : is, maximum_supply : ms]

IssueCalls(as, ts, qs, ms) == [auth : as, to : ts, quantity : qs, memo : ms]

UpdateCalls(as, ss, rs, us, zs, ds, ys, ls) == [auth : as, sym : ss, recall : rs, authorize : us, authorizer : zs, daily : ds, yearly : ys, allowed : ls]

RetireCalls(as, qs, ms) == [auth : as, quantity : qs, memo : ms]

TransferCalls(as, fs, ts, qs, ms) == [auth : as, from : fs, to : ts, quantity : qs, memo : ms]

OpenCalls(as, os, ss, ps) == [auth : as, owner : os, symbol : ss, ram_payer : ps]

CloseCalls(as, os, ss) == [auth : as, owner : os, symbol : ss]

\* The ledger: every way of moving amounts between two accounts, and each
\* malformed argument once.
LedgerInputs ==
    [ticks     |-> NumTicks,
     creates   |-> CreateCalls({{Self}}, {"alice"}, Quantities) \cup CreateCalls({{"alice"}}, {"alice"}, {Asset(2 * Unit, TKN4)}),
     issues    |-> IssueCalls({{"alice"}, {"bob"}}, {"alice", "bob"}, GoodQuantities, {0})
                   \cup IssueCalls({{"alice"}}, {"alice"}, Quantities, MemoSizes),
     updates   |-> UpdateCalls({{"alice"}, {"bob"}}, {TKN4}, {TRUE}, {TRUE}, {NoName, "bob"}, {unlimited_ppm}, {unlimited_ppm}, {Asset(2 * Unit, TKN4)})
                   \cup UpdateCalls({{"alice"}}, {BadSym}, {TRUE}, {TRUE}, {NoName}, {unlimited_ppm}, {unlimited_ppm}, {Asset(Unit, TKN4)}),
     retires   |-> RetireCalls({{"alice"}, {"bob"}}, GoodQuantities, {0})
                   \cup RetireCalls({{"alice"}}, Quantities, MemoSizes),
     transfers |-> TransferCalls({{"alice"}, {"bob"}, {"alice", "bob"}}, Accounts, Accounts, GoodQuantities, {0})
                   \cup TransferCalls({{"alice"}}, {"alice"}, {"bob"}, Quantities, MemoSizes)
                   \cup TransferCalls({{"alice"}}, {"alice"}, {Ghost}, {Asset(Unit, TKN4)}, {0}),
     opens     |-> OpenCalls({{"alice"}, {"bob"}}, Accounts, {TKN4}, Accounts)
                   \cup OpenCalls({{"alice"}}, {"alice", Ghost}, Symbols, {"alice"}),
     closes    |-> CloseCalls({{"alice"}, {"bob"}}, Accounts, {TKN4, TKN2})
                   \cup CloseCalls({{"alice"}}, {"alice"}, {BadSym})]

\* The governance parameters: every update, on a ledger with one holder.
GovInputs ==
    [ticks     |-> NumTicks,
     creates   |-> CreateCalls({{Self}}, {"alice"}, {Asset(2 * Unit, TKN4)}),
     issues    |-> IssueCalls({{"alice"}}, {"alice"}, {Asset(2 * Unit, TKN4)}, {0}),
     updates   |-> UpdateCalls({{"alice"}}, {TKN4}, BOOLEAN, BOOLEAN, {NoName, "bob", Ghost}, {milli, unlimited_ppm}, {milli, unlimited_ppm}, AllowedInflations)
                   \cup UpdateCalls({{"bob"}}, {TKN4, BadSym}, {FALSE}, {FALSE}, {NoName}, {milli}, {milli}, {Asset(Unit, TKN4)}),
     retires   |-> RetireCalls({{"alice"}}, {Asset(2 * Unit, TKN4)}, {0}),
     transfers |-> TransferCalls({{"alice"}}, {"alice"}, {"bob"}, {Asset(2 * Unit, TKN4)}, {0}),
     opens     |-> OpenCalls({{"bob"}}, {"bob"}, {TKN4}, {"bob"}),
     closes    |-> CloseCalls({{"bob"}}, {"bob"}, {TKN4})]

\* Issuance over time: the issuer issues and retires small and large amounts
\* while the clock runs for a day and more, under every setting of the two ppm
\* limits and of the absolute daily limit.
ThrottleInputs ==
    [ticks     |-> NumTicks + 1,
     creates   |-> CreateCalls({{Self}}, {"alice"}, {Asset(2 * Unit, TKN4)}),
     issues    |-> IssueCalls({{"alice"}}, {"alice"}, GoodQuantities, {0})
                   \cup IssueCalls({{"bob"}}, {"alice"}, {Asset(Unit, TKN4)}, {0}),
     updates   |-> UpdateCalls({{"alice"}}, {TKN4}, {TRUE}, {TRUE}, {NoName}, PpmLimits, PpmLimits, AllowedInflations),
     retires   |-> RetireCalls({{"alice"}}, GoodQuantities, {0}),
     transfers |-> TransferCalls({{"alice"}}, {"alice"}, {"bob"}, {Asset(Unit, TKN4)}, {0}),
     opens     |-> OpenCalls({{"bob"}}, {"bob"}, {TKN4}, {"bob"}),
     closes    |-> CloseCalls({{"bob"}}, {"bob"}, {TKN4})]

Init ==
    /\ stats = [c \in SymCodes |-> NoRow]
    /\ accounts = [n \in Names |-> [c \in SymCodes |-> NoRow]]
    /\ now = 0
    /\ last = [op |-> "init", ok |-> TRUE, err |-> "", sent |-> NoName]
    /\ issued = [c \in SymCodes |-> <<>>]

Tick(I) ==
    /\ now + TickSecs <= I.ticks * TickSecs
    /\ now' = now + TickSecs
    /\ last' = [op |-> "tick", ok |-> TRUE, err |-> "", sent |-> NoName]
    /\ UNCHANGED <<stats, accounts, issued>>

RunCreate(c) == create(stats, accounts, now, c.auth, c.issuer, c.maximum_supply)

\* The outcomes the divisions of an issue may have in the current state: those
\* of a division by zero when the supply is 0, the quotient otherwise (ub is
\* then not read).
DivOutcomes(c) ==
    IF SupplyIsZero(stats, c.quantity.symbol.code) THEN DivZeroOutcomes ELSE {[trap |-> FALSE, q |-> 0]}

RunIssue(c, ub) == issue(stats, accounts, now, c.auth, c.to, c.quantity, c.memo, ub)

RunUpdate(c) == update(stats, accounts, c.auth, c.sym, c.recall, c.authorize, c.authorizer, c.daily, c.yearly, c.allowed)

RunRetire(c) == retire(stats, accounts, c.auth, c.quantity, c.memo)

RunTransfer(c) == transfer(stats, accounts, c.auth, c.from, c.to, c.quantity, c.memo)

RunOpen(c) == open(stats, accounts, c.auth, c.owner, c.symbol, c.ram_payer)

RunClose(c) == close(stats, accounts, c.auth, c.owner, c.symbol)

Create(I) == \E c \in I.creates : Apply("create", RunCreate(c))

\* The record of amounts issued, with amount added at time t.
Logged(log, t, amount) ==
    [u \in DOMAIN log \cup {t} |-> (IF u \in DOMAIN log THEN log[u] ELSE 0) + (IF u = t THEN amount ELSE 0)]

Issue(I) ==
    \E c \in I.issues : \E ub \in DivOutcomes(c) : \E r \in {RunIssue(c, ub)} :
        /\ stats' = Commit(r, stats, accounts).stats
        /\ accounts' = Commit(r, stats, accounts).accounts
        /\ last' = Outcome("issue", r)
        /\ now' = now
        /\ issued' = IF r.ok
                     THEN [issued EXCEPT ![c.quantity.symbol.code] = Logged(@, now, c.quantity.amount)]
                     ELSE issued

Update(I) == \E c \in I.updates : Apply("update", RunUpdate(c))

Retire(I) == \E c \in I.retires : Apply("retire", RunRetire(c))

Transfer(I) == \E c \in I.transfers : Apply("transfer", RunTransfer(c))

Open(I) == \E c \in I.opens : Apply("open", RunOpen(c))

Close(I) == \E c \in I.closes : Apply("close", RunClose(c))

Next(I) == Tick(I) \/ Create(I) \/ Issue(I) \/ Update(I) \/ Retire(I) \/ Transfer(I) \/ Open(I) \/ Close(I)

Spec == Init /\ [][Next(LedgerInputs)]_vars

SpecGov == Init /\ [][Next(GovInputs)]_vars

SpecThrottle == Init /\ [][Next(ThrottleInputs)]_vars

(***************************************************************************)
(* Properties.                                                             *)
(***************************************************************************)
Tables == [stats |-> stats, accounts |-> accounts]

HasRow(code) == stats[code] # NoRow

\* The amount an account holds of a symbol, an absent row counting as zero.
BalanceOf(A, n, code) == IF find_acnt(A, n, code) = NoRow THEN 0 ELSE A[n][code].balance.amount

RECURSIVE SumBalances(_, _, _)
SumBalances(A, ns, code) ==
    IF ns = {} THEN 0
    ELSE LET n == CHOOSE x \in ns : TRUE IN BalanceOf(A, n, code) + SumBalances(A, ns \ {n}, code)

SupplyOf(S, code) == IF find_stat(S, code) = NoRow THEN 0 ELSE S[code].supply.amount

\* C1: ledger conservation.  In every reachable state and for every symbol,
\* the supply of the stats row equals the sum of the balances of all accounts
\* rows of that symbol (absent rows, and an absent stats row, counting as 0).
C1_LedgerConservation ==
    \A code \in SymCodes : SupplyOf(stats, code) = SumBalances(accounts, Names, code)

\* C1 witness: after an issue of two units, a transfer of one to bob and a
\* retire of the other, the supply is what bob holds.
C1_Witness ==
    /\ last.op = "retire" /\ last.ok
    /\ SupplyOf(stats, "TKN") = Unit
    /\ find_acnt(accounts, "alice", "TKN") # NoRow
    /\ BalanceOf(accounts, "alice", "TKN") = 0
    /\ BalanceOf(accounts, "bob", "TKN") = Unit

\* C2: supply cap.  In every reachable state 0 <= supply <= max_supply for
\* every symbol, and every issue whose quantity exceeds max_supply - supply
\* fails and leaves the tables (supply, the issuer's balance) as they were.
C2_SupplyCap ==
    /\ \A code \in SymCodes : HasRow(code) =>
           0 <= stats[code].supply.amount /\ stats[code].supply.amount <= stats[code].max_supply.amount
    /\ \A c \in LedgerInputs.issues : \A ub \in DivOutcomes(c) :
           LET st == find_stat(stats, c.quantity.symbol.code)
               r  == RunIssue(c, ub)
           IN  (st # NoRow /\ c.quantity.amount > st.max_supply.amount - st.supply.amount) =>
                   ~r.ok /\ Commit(r, stats, accounts) = Tables

\* C2 witness: with half of max_supply issued, an issue of the whole of
\* max_supply has just failed for exceeding the available supply.
C2_Witness ==
    /\ last.op = "issue" /\ last.err = "quantity exceeds available supply"
    /\ HasRow("TKN")
    /\ stats["TKN"].supply.amount = Unit
    /\ stats["TKN"].max_supply.amount = 2 * Unit
    /\ BalanceOf(accounts, "alice", "TKN") = Unit

\* C3: one-way governance switches.  No step takes recall or authorize of a
\* stats row from false to true (and no step removes the row), so along every
\* execution a switch that is false stays false.
C3_OneWaySwitches ==
    [][\A code \in SymCodes : HasRow(code) =>
           /\ stats'[code] # NoRow
           /\ ~stats[code].recall => ~stats'[code].recall
           /\ ~stats[code].authorize => ~stats'[code].authorize]_vars

\* C3 witness: both switches are off and an update that asked for one of them
\* to be on again has just failed.
C3_Witness ==
    /\ last.op = "update" /\ last.err = "cannot enable recall once disabled"
    /\ HasRow("TKN")
    /\ ~stats["TKN"].recall
    /\ ~stats["TKN"].authorize

\* C4: limits only tighten.  No step raises daily_inf_per_limit,
\* yearly_inf_per_limit or allowed_daily_inflation of a stats row, so each is
\* at most its value in every earlier state.
C4_LimitsOnlyTighten ==
    [][\A code \in SymCodes : HasRow(code) =>
           /\ stats'[code] # NoRow
           /\ stats'[code].daily_inf_per_limit <= stats[code].daily_inf_per_limit
           /\ stats'[code].yearly_inf_per_limit <= stats[code].yearly_inf_per_limit
           /\ stats'[code].allowed_daily_inflation.amount <= stats[code].allowed_daily_inflation.amount]_vars

\* C4 witness: all three limits are below the values create stored and an
\* update that asked for a higher one has just failed.
C4_Witness ==
    /\ last.op = "update" /\ last.err = "cannot raise yearly inflation percent limit"
    /\ HasRow("TKN")
    /\ stats["TKN"].daily_inf_per_limit = milli
    /\ stats["TKN"].yearly_inf_per_limit = milli
    /\ stats["TKN"].allowed_daily_inflation.amount < stats["TKN"].max_supply.amount

\* An update call asks to switch recall or authorize back on, or to raise one
\* of the three limits, of the row st.
Loosens(c, st) ==
    \/ c.recall /\ ~st.recall
    \/ c.authorize /\ ~st.authorize
    \/ c.daily > st.daily_inf_per_limit
    \/ c.yearly > st.yearly_inf_per_limit
    \/ c.allowed.amount > st.allowed_daily_inflation.amount

\* An update call whose authorizer the code rejects: one named while authorize
\* is false, or one that is no account.
BadAuthorizer(c) ==
    \/ ~c.authorize /\ c.authorizer # NoName
    \/ c.authorize /\ c.authorizer # NoName /\ c.authorizer \notin Accounts

\* The governance fields of the row of c's symbol in S are c's arguments.
Persisted(c, S) ==
    LET st == S[c.sym.code] IN
    /\ st.recall = c.recall
    /\ st.authorize = c.authorize
    /\ st.authorizer = c.authorizer
    /\ st.daily_inf_per_limit = c.daily
    /\ st.yearly_inf_per_limit = c.yearly
    /\ st.allowed_daily_inflation = c.allowed

\* C5 as stated: an issuer-authorized update of an existing symbol fails when
\* it loosens a switch or a limit, and in every other case succeeds and stores
\* its arguments.
C5_AsStated ==
    \A c \in GovInputs.updates :
        LET st == find_stat(stats, c.sym.code)
            r  == RunUpdate(c)
        IN  (st # NoRow /\ has_auth(c.auth, st.issuer)) =>
                IF Loosens(c, st) THEN ~r.ok
                ELSE r.ok /\ Persisted(c, Commit(r, stats, accounts).stats)

\* C5 amended: an issuer-authorized update of an existing symbol fails, and
\* changes nothing, when it loosens a switch or a limit, when it names an
\* authorizer while authorize is false, or when it names an authorizer that
\* is no account while authorize is true; in every other case it succeeds and
\* the stored governance fields equal its arguments.
C5_UpdateOutcome ==
    \A c \in GovInputs.updates :
        LET st == find_stat(stats, c.sym.code)
            r  == RunUpdate(c)
        IN  (st # NoRow /\ has_auth(c.auth, st.issuer)) =>
                IF Loosens(c, st) \/ BadAuthorizer(c)
                THEN ~r.ok /\ Commit(r, stats, accounts) = Tables
                ELSE r.ok /\ Persisted(c, Commit(r, stats, accounts).stats)

\* C5 witness: an update has just succeeded and stored a named authorizer and
\* tightened limits, and in this state updates of each kind are on offer: one
\* that loosens, one with a bad authorizer, one that does neither.
C5_Witness ==
    /\ last.op = "update" /\ last.ok
    /\ HasRow("TKN")
    /\ stats["TKN"].authorizer = "bob"
    /\ stats["TKN"].daily_inf_per_limit = milli
    /\ ~stats["TKN"].recall
    /\ \E c \in GovInputs.updates : has_auth(c.auth, "alice") /\ Loosens(c, stats["TKN"]) /\ ~RunUpdate(c).ok
    /\ \E c \in GovInputs.updates : has_auth(c.auth, "alice") /\ ~Loosens(c, stats["TKN"]) /\ BadAuthorizer(c) /\ ~RunUpdate(c).ok
    /\ \E c \in GovInputs.updates : has_auth(c.auth, "alice") /\ ~Loosens(c, stats["TKN"]) /\ RunUpdate(c).ok

\* The account cannot pay the quantity: it has no row for the symbol code, or
\* its balance is less.
Short(n, q) == find_acnt(accounts, n, q.symbol.code) = NoRow \/ q.amount > BalanceOf(accounts, n, q.symbol.code)

\* C6: no negative balances.  In every reachable state every accounts row holds
\* an amount >= 0, and every debit of more than the owner holds, or from an
\* owner with no row, fails: as sub_balance itself, through transfer and
\* through retire.
C6_NoNegativeBalances ==
    /\ \A n \in Names, code \in SymCodes : accounts[n][code] # NoRow => accounts[n][code].balance.amount >= 0
    /\ \A n \in Names, q \in Quantities : Short(n, q) => ~sub_balance(accounts, n, q).ok
    /\ \A c \in LedgerInputs.transfers :
           LET r == RunTransfer(c) IN
           Short(c.from, c.quantity) => ~r.ok /\ Commit(r, stats, accounts) = Tables
    /\ \A c \in LedgerInputs.retires :
           LET st == find_stat(stats, c.quantity.symbol.code)
               r  == RunRetire(c)
           IN  (st # NoRow /\ Short(st.issuer, c.quantity)) => ~r.ok /\ Commit(r, stats, accounts) = Tables

\* C6 witness: bob holds one unit and a transfer of more from bob has just
\* failed as overdrawn.
C6_Witness ==
    /\ last.op = "transfer" /\ last.err = "overdrawn balance"
    /\ BalanceOf(accounts, "bob", "TKN") = Unit
    /\ \E c \in LedgerInputs.transfers : c.from = "bob" /\ RunTransfer(c).err = "overdrawn balance"

\* C7: failure atomicity.  In every reachable state every call that fails
\* leaves both tables as they were, and a retire of more than the issuer holds
\* (or with no row for the issuer) leaves both tables as they were, though
\* the code has by then taken the quantity off the supply.
C7_FailureAtomicity ==
    /\ \A c \in LedgerInputs.creates :
           LET r == RunCreate(c) IN ~r.ok => Commit(r, stats, accounts) = Tables
    /\ \A c \in LedgerInputs.issues : \A ub \in DivOutcomes(c) :
           LET r == RunIssue(c, ub) IN ~r.ok => Commit(r, stats, accounts) = Tables
    /\ \A c \in LedgerInputs.updates :
           LET r == RunUpdate(c) IN ~r.ok => Commit(r, stats, accounts) = Tables
    /\ \A c \in LedgerInputs.retires :
           LET st == find_stat(stats, c.quantity.symbol.code)
               r  == RunRetire(c)
           IN  /\ ~r.ok => Commit(r, stats, accounts) = Tables
               /\ (st # NoRow /\ Short(st.issuer, c.quantity)) => Commit(r, stats, accounts) = Tables
    /\ \A c \in LedgerInputs.transfers :
           LET r == RunTransfer(c) IN ~r.ok => Commit(r, stats, accounts) = Tables
    /\ \A c \in LedgerInputs.opens :
           LET r == RunOpen(c) IN ~r.ok => Commit(r, stats, accounts) = Tables
    /\ \A c \in LedgerInputs.closes :
           LET r == RunClose(c) IN ~r.ok => Commit(r, stats, accounts) = Tables

\* C7 witness: a retire has just failed as overdrawn; its working copy of the
\* stats table had the supply reduced, and the supply is what it was.
C7_Witness ==
    /\ last.op = "retire" /\ last.err = "overdrawn balance"
    /\ SupplyOf(stats, "TKN") = SumBalances(accounts, Names, "TKN")
    /\ \E c \in LedgerInputs.retires :
           /\ RunRetire(c).err = "overdrawn balance"
           /\ SupplyOf(RunRetire(c).stats, "TKN") = SupplyOf(stats, "TKN") - c.quantity.amount

\* C9: close.  In every state a close of an owner with no row for the symbol
\* code, or with a non-zero balance, fails, and an owner-authorized close of a
\* row with balance zero succeeds and removes that row and nothing else; and
\* no step removes an accounts row unless it is a close and the row's balance
\* was exactly zero.
C9_CloseOnlyAtZero ==
    /\ [](\A c \in LedgerInputs.closes :
              LET it == find_acnt(accounts, c.owner, c.symbol.code)
                  r  == RunClose(c)
                  T  == Commit(r, stats, accounts)
              IN  /\ (it = NoRow \/ it.balance.amount # 0) => ~r.ok /\ T = Tables
                  /\ (it # NoRow /\ it.balance.amount = 0 /\ has_auth(c.auth, c.owner)) =>
                         /\ r.ok
                         /\ T.stats = stats
                         /\ T.accounts = [accounts EXCEPT ![c.owner][c.symbol.code] = NoRow])
    /\ [][\A n \in Names, code \in SymCodes :
              (accounts[n][code] # NoRow /\ accounts'[n][code] = NoRow) =>
                  accounts[n][code].balance.amount = 0 /\ last'.op = "close" /\ last'.ok]_vars

\* C9 witness: bob's row, emptied by a transfer back to alice, has just been
\* closed, while alice still holds the supply.
C9_Witness ==
    /\ last.op = "close" /\ last.ok
    /\ find_acnt(accounts, "bob", "TKN") = NoRow
    /\ BalanceOf(accounts, "alice", "TKN") = 2 * Unit
    /\ find_acnt(accounts, "alice", "TKN").payer = "bob"

\* C10: the effect of a transfer.  In every reachable state every transfer
\* that succeeds takes exactly the quantity off from's balance, adds exactly
\* the quantity to to's balance (creating the row if it is absent), and leaves
\* the stats table and every other account's rows as they were.
C10_TransferEffect ==
    \A c \in LedgerInputs.transfers :
        LET code == c.quantity.symbol.code
            r    == RunTransfer(c)
            T    == Commit(r, stats, accounts)
        IN  r.ok =>
                /\ BalanceOf(T.accounts, c.from, code) = BalanceOf(accounts, c.from, code) - c.quantity.amount
                /\ find_acnt(T.accounts, c.to, code) # NoRow
                /\ BalanceOf(T.accounts, c.to, code) = BalanceOf(accounts, c.to, code) + c.quantity.amount
                /\ T.stats = stats
                /\ \A n \in Names \ {c.from, c.to} : T.accounts[n] = accounts[n]

\* C10 witness: of two units issued to alice, one has just been transferred to
\* bob: each holds one, and the supply is still two.
C10_Witness ==
    /\ last.op = "transfer" /\ last.ok
    /\ BalanceOf(accounts, "alice", "TKN") = Unit
    /\ BalanceOf(accounts, "bob", "TKN") = Unit
    /\ SupplyOf(stats, "TKN") = 2 * Unit

(***************************************************************************)
(* Self-transfer, storage payers and open.                                 *)
(***************************************************************************)
\* Every transfer of an account to itself: each authority, each name (the one
\* that is no account too), each quantity and memo length.
SelfTransfers ==
    {[auth |-> a, from |-> n, to |-> n, quantity |-> q, memo |-> m] :
         a \in AuthSets, n \in Names, q \in Quantities, m \in MemoSizes}

\* C11: a transfer with from = to fails in every reachable state, whatever
\* the balances, the quantity, the authority and the symbol, on the check of
\* from against to, and leaves both tables as they were.
C11_SelfTransferFails ==
    \A c \in SelfTransfers :
        LET r == RunTransfer(c) IN
        /\ ~r.ok
        /\ r.err = "cannot transfer to self"
        /\ Commit(r, stats, accounts) = Tables

\* C11 witness: alice holds two units and a transfer from alice to alice, which
\* her balance and authority would cover, has just failed as a self-transfer.
C11_Witness ==
    /\ last.op = "transfer" /\ last.err = "cannot transfer to self"
    /\ BalanceOf(accounts, "alice", "TKN") = 2 * Unit
    /\ \E c \in LedgerInputs.transfers :
           c.from = "alice" /\ c.to = "alice" /\ has_auth(c.auth, "alice") /\ c.quantity = Asset(Unit, TKN4)

\* The row of n for code is there before and after the step.
RowKept(n, code) == accounts[n][code] # NoRow /\ accounts'[n][code] # NoRow

\* C12 as stated: no step changes the payer of an accounts row that is there
\* before and after it.
C12_AsStated ==
    [][\A n \in Names, code \in SymCodes :
          RowKept(n, code) => accounts'[n][code].payer = accounts[n][code].payer]_vars

\* C12 amended: the payer of an accounts row is set when the row is created
\* and is changed by no credit (issue, the credit of a transfer) and no open;
\* a step that changes it is a successful debit of that row (a retire, or a
\* transfer from its owner), and the payer is the row's owner from then on.
C12_PayerChangesOnDebitOnly ==
    [][\A n \in Names, code \in SymCodes :
          (RowKept(n, code) /\ accounts'[n][code].payer # accounts[n][code].payer) =>
              /\ last'.op \in {"transfer", "retire"} /\ last'.ok
              /\ accounts'[n][code].balance.amount < accounts[n][code].balance.amount
              /\ accounts'[n][code].payer = n]_vars

\* C12 witness: alice's row, opened and paid for by bob, has just been
\* credited by an issue and is still charged to bob, and a transfer from alice
\* on offer would charge it to alice.
C12_Witness ==
    /\ last.op = "issue" /\ last.ok
    /\ BalanceOf(accounts, "alice", "TKN") = 2 * Unit
    /\ find_acnt(accounts, "alice", "TKN").payer = "bob"
    /\ \E c \in LedgerInputs.transfers :
           LET r == RunTransfer(c) IN
           c.from = "alice" /\ r.ok /\ r.accounts["alice"]["TKN"].payer = "alice"

\* An open call is valid: the payer has authorized it, the owner is an account
\* and the symbol is that of a stats row.
ValidOpen(c) ==
    /\ has_auth(c.auth, c.ram_payer)
    /\ is_account(c.owner)
    /\ find_stat(stats, c.symbol.code) # NoRow
    /\ stats[c.symbol.code].supply.symbol = c.symbol

\* C13: open is idempotent.  In every reachable state an open succeeds exactly
\* when it is valid; on an owner and symbol that have a row it changes
\* nothing; on one that have none it adds a row with balance 0 charged to the
\* payer and changes nothing else; and every valid open of the same owner and
\* symbol that follows it leaves the tables as the first left them.
C13_OpenIdempotent ==
    \A c \in LedgerInputs.opens :
        LET r == RunOpen(c)
            T == Commit(r, stats, accounts)
        IN  /\ r.ok <=> ValidOpen(c)
            /\ r.ok =>
                /\ T.stats = stats
                /\ IF find_acnt(accounts, c.owner, c.symbol.code) # NoRow
                   THEN T.accounts = accounts
                   ELSE T.accounts = [accounts EXCEPT ![c.owner][c.symbol.code] =
                                         [balance |-> Asset(0, c.symbol), payer |-> c.ram_payer]]
                /\ \A c2 \in LedgerInputs.opens :
                       LET r2 == open(T.stats, T.accounts, c2.auth, c2.owner, c2.symbol, c2.ram_payer) IN
                       (c2.owner = c.owner /\ c2.symbol = c.symbol /\ r2.ok) => Commit(r2, T.stats, T.accounts) = T

\* C13 witness: alice and bob each hold one unit, bob's row charged to alice,
\* and an open (of one of those two rows, there being no other account) has
\* just succeeded; and an open of bob's row with bob as payer is on offer.
C13_Witness ==
    /\ last.op = "open" /\ last.ok
    /\ BalanceOf(accounts, "alice", "TKN") = Unit
    /\ BalanceOf(accounts, "bob", "TKN") = Unit
    /\ find_acnt(accounts, "bob", "TKN").payer = "alice"
    /\ \E c \in LedgerInputs.opens : c.owner = "bob" /\ c.ram_payer = "bob" /\ RunOpen(c).ok

\* C19: in every reachable state, for every symbol, authorize false implies
\* that the authorizer is empty; so a transfer of a symbol whose authorize is
\* false sends no authorize message, and a transfer that succeeds sends one,
\* to the stored authorizer, exactly when the stored authorizer is not empty.
C19_AuthorizerOnlyWhenEnabled ==
    /\ \A code \in SymCodes : (HasRow(code) /\ ~stats[code].authorize) => stats[code].authorizer = NoName
    /\ \A c \in GovInputs.transfers :
           LET st == find_stat(stats, c.quantity.symbol.code)
               r  == RunTransfer(c)
           IN  st # NoRow =>
                   /\ ~st.authorize => r.sent = NoName
                   /\ r.ok => r.sent = st.authorizer
                   /\ ~r.ok => r.sent = NoName
    /\ (last.op = "transfer" /\ last.ok) =>
           \A code \in SymCodes : HasRow(code) => last.sent = stats[code].authorizer

\* C19 witness: with bob stored as authorizer, a transfer has just succeeded
\* and sent its authorize message to bob.
C19_Witness ==
    /\ last.op = "transfer" /\ last.ok /\ last.sent = "bob"
    /\ stats["TKN"].authorize
    /\ stats["TKN"].authorizer = "bob"
    /\ BalanceOf(accounts, "bob", "TKN") = 2 * Unit

(***************************************************************************)
(* The estimator on its own: calculate_avg applied to inputs drawn from     *)
(* bounded sets.                                                           *)
(***************************************************************************)
AvgDeltas == {0, 1, 43200, 86399, 86400, 86401, 172800, 1000000}

AvgWindows == {day, year, 1000000}

AvgPriors == {0, 1, 3, 999, 1000}

AvgNews == {0, 1, 500, 1000}

CalculateAvg ==
    /\ \E delta \in AvgDeltas, window \in AvgWindows, prior \in AvgPriors, new \in AvgNews :
           LET r == calculate_avg(delta, window, Asset(prior, TKN4), Asset(new, TKN4)) IN
           last' = [op |-> "calculate_avg", ok |-> r.ok, err |-> r.err, sent |-> NoName,
                    delta |-> delta, window |-> window, prior |-> prior, new |-> new, value |-> r.value]
    /\ UNCHANGED <<stats, accounts, now, issued>>

NextAvg == CalculateAvg

SpecAvg == Init /\ [][NextAvg]_vars

\* floor(e * 10^k / w), by long division one decimal digit at a time
RECURSIVE FloorScaled(_, _, _)
FloorScaled(e, k, w) ==
    IF k = 0 THEN [q |-> e \div w, r |-> e % w]
    ELSE LET p == FloorScaled(e, k - 1, w) IN [q |-> p.q * 10 + (p.r * 10) \div w, r |-> (p.r * 10) % w]

Min(a, b) == IF a <= b THEN a ELSE b

\* floor(prior * (1000000 - min(1000000, floor(elapsed * 1000000 / window))) / 1000000) + new
Reference(prior, elapsed, window, new) ==
    (prior * (1000000 - Min(1000000, FloorScaled(elapsed, 6, window).q))) \div 1000000 + new

\* C8: estimator reference.  For all prior averages, elapsed times, windows
\* and new amounts of the input sets, calculate_avg returns the reference
\* value, which is never below the new amount; (1000, 0, 86400, 500) gives
\* 1500, (1000, 86400, 86400, 500) gives 500 and (1000, 172800, 86400, 500)
\* gives 500.
C8_EstimatorReference ==
    last.op = "calculate_avg" =>
        /\ last.ok
        /\ last.value.amount = Reference(last.prior, last.delta, last.window, last.new)
        /\ last.value.amount >= last.new
        /\ (last.prior = 1000 /\ last.window = 86400 /\ last.new = 500) =>
               /\ last.delta = 0 => last.value.amount = 1500
               /\ last.delta = 86400 => last.value.amount = 500
               /\ last.delta = 172800 => last.value.amount = 500

\* C8 witness: calculate_avg has been applied to (1000, 172800, 86400, 500),
\* where the elapsed time is twice the window, and has returned 500.
C8_Witness ==
    /\ last.op = "calculate_avg"
    /\ last.prior = 1000 /\ last.delta = 172800 /\ last.window = 86400 /\ last.new = 500
    /\ last.value.amount = 500

(***************************************************************************)
(* Issuance over time: the inflation gate and the two moving averages.     *)
(***************************************************************************)
\* An issue call passes every check of issue that comes before the averages
\* are computed: the symbol and the memo are well formed, the symbol has a
\* stats row, the issue is to the issuer and authorized by the issuer, and
\* the quantity is valid, positive, of the row's symbol and no more than
\* max_supply - supply.
OtherwiseValid(c) ==
    LET st == find_stat(stats, c.quantity.symbol.code) IN
    /\ symbol_is_valid(c.quantity.symbol)
    /\ c.memo <= 256
    /\ st # NoRow
    /\ c.to = st.issuer
    /\ has_auth(c.auth, st.issuer)
    /\ asset_is_valid(c.quantity)
    /\ c.quantity.amount > 0
    /\ c.quantity.symbol = st.supply.symbol
    /\ c.quantity.amount <= st.max_supply.amount - st.supply.amount

\* The averages an issue of c would store, by the reference of the estimator.
NewDailyAvg(c) ==
    LET st == stats[c.quantity.symbol.code]
    IN  Reference(st.avg_daily_inflation.amount, now - st.last_update, day, c.quantity.amount)

NewYearlyAvg(c) ==
    LET st == stats[c.quantity.symbol.code]
    IN  Reference(st.avg_yearly_inflation.amount, now - st.last_update, year, c.quantity.amount)

\* floor(avg * 1000000 / supply) for a supply that is not 0
FloorPpm(avg, supply) == FloorScaled(avg, 6, supply).q

\* floor(avg * 1000000 / supply) < limit, where a supply of 0, for which there
\* is no such ratio, counts as the flag says.
BelowLimit(avg, supply, limit, ifzero) == IF supply = 0 THEN ifzero ELSE FloorPpm(avg, supply) < limit

\* The gate of C14 as a rule for one state, under one reading of a supply of 0.
GateRule(ifzero) ==
    \A c \in ThrottleInputs.issues : \A ub \in DivOutcomes(c) :
        LET st == stats[c.quantity.symbol.code]
            r  == RunIssue(c, ub)
        IN  (OtherwiseValid(c) /\ NewDailyAvg(c) > st.allowed_daily_inflation.amount) =>
                (r.ok <=> /\ BelowLimit(NewDailyAvg(c), st.supply.amount, st.daily_inf_per_limit, ifzero)
                          /\ BelowLimit(NewYearlyAvg(c), st.supply.amount, st.yearly_inf_per_limit, ifzero))

\* C14 as stated: in every reachable state every otherwise valid issue whose
\* new daily average exceeds allowed_daily_inflation succeeds if and only if
\* floor(new_daily_avg * 1000000 / supply) is strictly below the daily ppm
\* limit and floor(new_yearly_avg * 1000000 / supply) strictly below the
\* yearly one, the supply being the one before the issue; whether a supply of
\* 0 is read as below every limit or as below none.
C14_AsStated == GateRule(TRUE) \/ GateRule(FALSE)

\* The stats row an issue of c stores, by the reference of the estimator.
IssuedRow(c) ==
    LET st == stats[c.quantity.symbol.code] IN
    [st EXCEPT !.supply = Asset(st.supply.amount + c.quantity.amount, st.supply.symbol),
               !.last_update = now,
               !.avg_daily_inflation = Asset(NewDailyAvg(c), c.quantity.symbol),
               !.avg_yearly_inflation = Asset(NewYearlyAvg(c), c.quantity.symbol)]

\* C15 as stated: in every reachable state every otherwise valid issue whose
\* new daily average is at most allowed_daily_inflation succeeds, whatever the
\* two ppm limits, and stores the new supply, last_update and both new
\* averages and adds the quantity to the issuer's balance.
C15_AsStated ==
    \A c \in ThrottleInputs.issues : \A ub \in DivOutcomes(c) :
        LET code == c.quantity.symbol.code
            st   == stats[code]
            r    == RunIssue(c, ub)
            T    == Commit(r, stats, accounts)
        IN  (OtherwiseValid(c) /\ NewDailyAvg(c) <= st.allowed_daily_inflation.amount) =>
                /\ r.ok
                /\ T.stats = [stats EXCEPT ![code] = IssuedRow(c)]
                /\ BalanceOf(T.accounts, st.issuer, code) = BalanceOf(accounts, st.issuer, code) + c.quantity.amount

\* An issue call gets as far as the two divisions by old_supply.amount: it
\* passes the checks of lines 47-61, the averages and the new supply are
\* within the range of an asset, and the new daily average is above
\* allowed_daily_inflation.
ReachesPpm(c) ==
    /\ OtherwiseValid(c)
    /\ LET st == stats[c.quantity.symbol.code]
           new_day_avg  == calculate_avg(now - st.last_update, day, st.avg_daily_inflation, c.quantity)
           new_year_avg == calculate_avg(now - st.last_update, year, st.avg_yearly_inflation, c.quantity)
       IN  /\ new_day_avg.ok
           /\ new_year_avg.ok
           /\ asset_add(st.supply, c.quantity).ok
           /\ new_day_avg.value.amount > st.allowed_daily_inflation.amount

\* C17 as stated: in every reachable state every issue that gets as far as
\* the ppm computation divides by a supply that is strictly positive.
C17_AsStated ==
    \A c \in ThrottleInputs.issues :
        ReachesPpm(c) => stats[c.quantity.symbol.code].supply.amount > 0

\* C20 as stated: in every reachable state where a day or more has passed
\* since last_update, every otherwise valid issue of a quantity that is at
\* most allowed_daily_inflation succeeds, whatever the stored averages and
\* ppm limits.
C20_AsStated ==
    \A c \in ThrottleInputs.issues : \A ub \in DivOutcomes(c) :
        LET st == find_stat(stats, c.quantity.symbol.code) IN
        (/\ st # NoRow
         /\ now - st.last_update >= day
         /\ OtherwiseValid(c)
         /\ c.quantity.amount <= st.allowed_daily_inflation.amount) => RunIssue(c, ub).ok

RECURSIVE SumLog(_, _)
SumLog(log, ts) ==
    IF ts = {} THEN 0
    ELSE LET t == CHOOSE u \in ts : TRUE IN log[t] + SumLog(log, ts \ {t})

\* The total issued in the window of the given span that ends now.
TrailingTotal(log, span) == SumLog(log, {t \in DOMAIN log : t > now - span})

\* The total issued at the present time, and since the symbol was created.
IssuedNow(log) == SumLog(log, {t \in DOMAIN log : t = now})

TotalIssued(log) == SumLog(log, DOMAIN log)

\* An issue of the symbol code has just succeeded.
JustIssued(code) == last.op = "issue" /\ last.ok /\ HasRow(code) /\ now \in DOMAIN issued[code]

\* C16 as stated: after every successful issue the stored daily average is at
\* least the total issued in the day that ends at the issue, and the stored
\* yearly average at least the total issued in the 365 days that end at it.
C16_AsStated ==
    \A code \in SymCodes : JustIssued(code) =>
        /\ stats[code].avg_daily_inflation.amount >= TrailingTotal(issued[code], day)
        /\ stats[code].avg_yearly_inflation.amount >= TrailingTotal(issued[code], year)

\* C16 amended: after every successful issue each stored average is at least
\* the total issued at the time of that issue (which is the total of its
\* trailing window when nothing was issued earlier inside the window) and at
\* most the total issued for the symbol so far; amounts issued earlier inside
\* the window count only in part.
C16_EstimateBounds ==
    \A code \in SymCodes : JustIssued(code) =>
        /\ IssuedNow(issued[code]) <= stats[code].avg_daily_inflation.amount
        /\ stats[code].avg_daily_inflation.amount <= TotalIssued(issued[code])
        /\ IssuedNow(issued[code]) <= stats[code].avg_yearly_inflation.amount
        /\ stats[code].avg_yearly_inflation.amount <= TotalIssued(issued[code])

\* C16 witness: one unit was issued, and half a day later one more has just
\* been: the daily average is one and a half units, the day's total is two.
C16_Witness ==
    /\ JustIssued("TKN")
    /\ now = TickSecs
    /\ IssuedNow(issued["TKN"]) = Unit
    /\ TrailingTotal(issued["TKN"], day) = 2 * Unit
    /\ stats["TKN"].avg_daily_inflation.amount = Unit + Unit \div 2
    /\ stats["TKN"].avg_yearly_inflation.amount < 2 * Unit

\* C18: in every reachable state, for every symbol, 0 <= avg_daily_inflation
\* <= avg_yearly_inflation; and no step but a successful issue changes either
\* average of a stats row (create stores both as 0).
C18_DailyWithinYearly ==
    /\ [](\A code \in SymCodes : HasRow(code) =>
              /\ 0 <= stats[code].avg_daily_inflation.amount
              /\ stats[code].avg_daily_inflation.amount <= stats[code].avg_yearly_inflation.amount)
    /\ [][\A code \in SymCodes :
              /\ (~HasRow(code) /\ stats'[code] # NoRow) =>
                     /\ stats'[code].avg_daily_inflation.amount = 0
                     /\ stats'[code].avg_yearly_inflation.amount = 0
              /\ (/\ HasRow(code)
                  /\ \/ stats'[code].avg_daily_inflation # stats[code].avg_daily_inflation
                     \/ stats'[code].avg_yearly_inflation # stats[code].avg_yearly_inflation) =>
                     last'.op = "issue" /\ last'.ok]_vars

\* C18 witness: an issue has just succeeded half a day after another: the
\* daily average kept half of the earlier unit, the yearly one nearly all.
C18_Witness ==
    /\ JustIssued("TKN")
    /\ now = TickSecs
    /\ stats["TKN"].avg_daily_inflation.amount = Unit + Unit \div 2
    /\ stats["TKN"].avg_yearly_inflation.amount > stats["TKN"].avg_daily_inflation.amount
    /\ stats["TKN"].avg_yearly_inflation.amount < 2 * Unit

====
